---- MODULE Spec2Model ----
(***************************************************************************)
(* A model of go-cronjob: the six-field cron expression parser             *)
(* (cronexpression.go) and the CronScheduler with its event loop           *)
(* (cronjob.go).                                                           *)
(*                                                                         *)
(* Text is a sequence of one-character strings.  An instant is the number  *)
(* of whole seconds since 2023-01-01 00:00:00 (a Sunday); the sub-second   *)
(* part of time.Now() is not represented, so an instant t stands for any   *)
(* moment of the second t.  Wall-clock fields are read in one fixed zone   *)
(* without daylight-saving jumps.                                          *)
(***************************************************************************)
EXTENDS Integers, Sequences, FiniteSets, TLC

\* the value of a one-element set.  A local of the code that is computed
\* once and read many times is bound as the member of a singleton, x \in {e},
\* which evaluates e once.
The(S) == CHOOSE x \in S : TRUE

(***************************************************************************)
(* Text helpers: the parts of package strings / strconv the parser uses.   *)
(***************************************************************************)
Digits == <<"0", "1", "2", "3", "4", "5", "6", "7", "8", "9">>

UpperLetters == <<"A", "B", "C", "D", "E", "F", "G", "H", "I", "J", "K", "L", "M",
                  "N", "O", "P", "Q", "R", "S", "T", "U", "V", "W", "X", "Y", "Z">>

LowerLetters == <<"a", "b", "c", "d", "e", "f", "g", "h", "i", "j", "k", "l", "m",
                  "n", "o", "p", "q", "r", "s", "t", "u", "v", "w", "x", "y", "z">>

IndexIn(ch, alphabet) ==
  IF \E i \in 1..Len(alphabet) : alphabet[i] = ch
  THEN CHOOSE i \in 1..Len(alphabet) : alphabet[i] = ch
  ELSE 0

\* strings.ToLower on one character
ToLowerCh(ch) ==
  IF IndexIn(ch, UpperLetters) > 0 THEN LowerLetters[IndexIn(ch, UpperLetters)] ELSE ch

\* strings.ToLower
ToLower(s) == [i \in 1..Len(s) |-> ToLowerCh(s[i])]

ToUpperCh(ch) ==
  IF IndexIn(ch, LowerLetters) > 0 THEN UpperLetters[IndexIn(ch, LowerLetters)] ELSE ch

\* cases.Title(language.Und).String on a token: the first letter of the word
\* is upper-cased, the rest lower-cased.
TitleCase(s) ==
  [i \in 1..Len(s) |-> IF i = 1 THEN ToUpperCh(s[i]) ELSE ToLowerCh(s[i])]

\* strings.Contains(s, sep) for a one-character sep
Contains(s, ch) == \E i \in 1..Len(s) : s[i] = ch

\* strings.Split(s, sep) for a one-character sep: always at least one part,
\* empty parts are kept.
RECURSIVE SplitFrom(_, _, _, _)
SplitFrom(s, ch, i, cur) ==
  IF i > Len(s) THEN <<cur>>
  ELSE IF s[i] = ch THEN <<cur>> \o SplitFrom(s, ch, i + 1, <<>>)
  ELSE SplitFrom(s, ch, i + 1, Append(cur, s[i]))

Split(s, ch) == SplitFrom(s, ch, 1, <<>>)

\* unicode.IsSpace, for the characters of the inputs
WhiteSpace == {" ", "\t", "\n", "\r"}

SpacesOnly(s) == [i \in 1..Len(s) |-> IF s[i] \in WhiteSpace THEN " " ELSE s[i]]

\* strings.Fields(s): the maximal runs of non-space characters.
Fields(s) == SelectSeq(Split(SpacesOnly(s), " "), LAMBDA f : Len(f) > 0)

\* strconv.Atoi: an optional sign followed by one or more decimal digits.
RECURSIVE DigitsValue(_, _)
DigitsValue(s, acc) ==
  IF Len(s) = 0 THEN acc
  ELSE DigitsValue(Tail(s), acc * 10 + (IndexIn(Head(s), Digits) - 1))

AllDigits(s) == Len(s) > 0 /\ \A i \in 1..Len(s) : IndexIn(s[i], Digits) > 0

Atoi(s) ==
  IF Len(s) > 0 /\ s[1] \in {"+", "-"}
  THEN IF AllDigits(Tail(s))
       THEN [ok |-> TRUE, v |-> IF s[1] = "-" THEN 0 - DigitsValue(Tail(s), 0)
                                              ELSE DigitsValue(Tail(s), 0)]
       ELSE [ok |-> FALSE, v |-> 0]
  ELSE IF AllDigits(s) THEN [ok |-> TRUE, v |-> DigitsValue(s, 0)]
       ELSE [ok |-> FALSE, v |-> 0]

(***************************************************************************)
(* cronexpression.go                                                       *)
(***************************************************************************)
monthNameToNumber ==
  [n \in {<<"J","a","n">>, <<"F","e","b">>, <<"M","a","r">>, <<"A","p","r">>,
          <<"M","a","y">>, <<"J","u","n">>, <<"J","u","l">>, <<"A","u","g">>,
          <<"S","e","p">>, <<"O","c","t">>, <<"N","o","v">>, <<"D","e","c">>} |->
     CASE n = <<"J","a","n">> -> 1  [] n = <<"F","e","b">> -> 2
       [] n = <<"M","a","r">> -> 3  [] n = <<"A","p","r">> -> 4
       [] n = <<"M","a","y">> -> 5  [] n = <<"J","u","n">> -> 6
       [] n = <<"J","u","l">> -> 7  [] n = <<"A","u","g">> -> 8
       [] n = <<"S","e","p">> -> 9  [] n = <<"O","c","t">> -> 10
       [] n = <<"N","o","v">> -> 11 [] OTHER -> 12]

dayNameToNumber ==
  [n \in {<<"S","u","n">>, <<"M","o","n">>, <<"T","u","e">>, <<"W","e","d">>,
          <<"T","h","u">>, <<"F","r","i">>, <<"S","a","t">>} |->
     CASE n = <<"S","u","n">> -> 0 [] n = <<"M","o","n">> -> 1
       [] n = <<"T","u","e">> -> 2 [] n = <<"W","e","d">> -> 3
       [] n = <<"T","h","u">> -> 4 [] n = <<"F","r","i">> -> 5
       [] OTHER -> 6]

\* a nil name table
NoNames == [n \in {} |-> 0]

\* results of the parsing functions: (value, error), error "nil" on success
OkVal(v) == [v |-> v, err |-> "nil"]
ErrVal(e) == [v |-> <<>>, err |-> e]

IntervalPast(lo, hi) == [i \in 1..(IF hi >= lo THEN hi - lo + 2 ELSE 0) |-> lo + i - 1]

\* for i := lo; i <= hi; i++ { values = append(values, i) }
Interval(lo, hi) == [i \in 1..(IF hi >= lo THEN hi - lo + 1 ELSE 0) |-> lo + i - 1]

parseValueUnchecked(part, minVal, maxVal, nameToNumber) ==
  LET key == TitleCase(ToLower(part))
      num == Atoi(part)
  IN IF key \in DOMAIN nameToNumber THEN [v |-> nameToNumber[key], err |-> "nil"]
     ELSE IF ~num.ok THEN [v |-> 0, err |-> "invalid value"]
     ELSE [v |-> num.v, err |-> "nil"]

parseValue(part, minVal, maxVal, nameToNumber) ==
  LET key == TitleCase(ToLower(part))
      num == Atoi(part)
  IN IF key \in DOMAIN nameToNumber THEN [v |-> nameToNumber[key], err |-> "nil"]
     ELSE IF ~num.ok THEN [v |-> 0, err |-> "invalid value"]
     ELSE IF num.v < minVal \/ num.v > maxVal THEN [v |-> 0, err |-> "value out of range"]
     ELSE [v |-> num.v, err |-> "nil"]

parseRangeNoWrap(part, minVal, maxVal, nameToNumber) ==
  LET rangeParts == Split(part, "-")
  IN IF Len(rangeParts) # 2 THEN ErrVal("invalid range")
     ELSE LET start == parseValue(rangeParts[1], minVal, maxVal, nameToNumber)
              end == parseValue(rangeParts[2], minVal, maxVal, nameToNumber)
          IN IF start.err # "nil" THEN ErrVal("invalid range start")
             ELSE IF end.err # "nil" THEN ErrVal("invalid range end")
             ELSE OkVal(Interval(start.v, end.v))

parseRange(part, minVal, maxVal, nameToNumber) ==
  LET rangeParts == Split(part, "-")
  IN IF Len(rangeParts) # 2 THEN ErrVal("invalid range")
     ELSE LET start == parseValue(rangeParts[1], minVal, maxVal, nameToNumber)
              end == parseValue(rangeParts[2], minVal, maxVal, nameToNumber)
          IN IF start.err # "nil" THEN ErrVal("invalid range start")
             ELSE IF end.err # "nil" THEN ErrVal("invalid range end")
             ELSE IF start.v > end.v
                  THEN OkVal(Interval(start.v, maxVal) \o Interval(minVal, end.v))
                  ELSE OkVal(Interval(start.v, end.v))

\* the list loop of parseField: parts[i..], values accumulated so far
RECURSIVE parseParts(_, _, _, _, _, _)
parseParts(parts, i, values, minVal, maxVal, nameToNumber) ==
  IF i > Len(parts) THEN OkVal(values)
  ELSE IF Contains(parts[i], "-")
       THEN LET r == parseRange(parts[i], minVal, maxVal, nameToNumber)
            IN IF r.err # "nil" THEN r
               ELSE parseParts(parts, i + 1, values \o r.v, minVal, maxVal, nameToNumber)
       ELSE LET n == parseValue(parts[i], minVal, maxVal, nameToNumber)
            IN IF n.err # "nil" THEN ErrVal(n.err)
               ELSE parseParts(parts, i + 1, Append(values, n.v), minVal, maxVal, nameToNumber)

RECURSIVE parseField(_, _, _, _)
parseStepFromStart(field, minVal, maxVal, nameToNumber) ==
  The({IF Len(parts) # 2 THEN ErrVal("invalid step field")
       ELSE The({IF base.err # "nil" THEN base
                 ELSE IF ~step.ok \/ step.v <= 0 THEN ErrVal("invalid step")
                 ELSE OkVal(SelectSeq(base.v, LAMBDA val : (val - base.v[1]) % step.v = 0)) :
                   base \in {parseField(parts[1], minVal, maxVal, nameToNumber)},
                   step \in {Atoi(parts[2])}}) :
         parts \in {Split(field, "/")}})

\* lines 348-371
parseStepField(field, minVal, maxVal, nameToNumber) ==
  The({IF Len(parts) # 2 THEN ErrVal("invalid step field")
       ELSE The({IF base.err # "nil" THEN base
                 ELSE IF ~step.ok \/ step.v <= 0 THEN ErrVal("invalid step")
                 ELSE OkVal(SelectSeq(base.v, LAMBDA val : (val - minVal) % step.v = 0)) :
                   base \in {parseField(parts[1], minVal, maxVal, nameToNumber)},
                   step \in {Atoi(parts[2])}}) :
         parts \in {Split(field, "/")}})

parseField(field, minVal, maxVal, nameToNumber) ==
  IF field = <<"*">> THEN OkVal(Interval(minVal, maxVal))
  ELSE IF Contains(field, "/") THEN parseStepField(field, minVal, maxVal, nameToNumber)
  ELSE The({parseParts(parts, 1, <<>>, minVal, maxVal, nameToNumber) :
              parts \in {Split(field, ",")}})

\* a nil *CronExpression
NilExpr == [Seconds |-> <<>>, Minutes |-> <<>>, Hours |-> <<>>,
            DayOfMonth |-> <<>>, Month |-> <<>>, DayOfWeek |-> <<>>]

\* lines 257-292, after the field count is known to be 6
parseFields(fields) ==
  The({IF seconds.err # "nil" THEN [expr |-> NilExpr, err |-> seconds.err]
       ELSE IF minutes.err # "nil" THEN [expr |-> NilExpr, err |-> minutes.err]
       ELSE IF hours.err # "nil" THEN [expr |-> NilExpr, err |-> hours.err]
       ELSE IF dayOfMonth.err # "nil" THEN [expr |-> NilExpr, err |-> dayOfMonth.err]
       ELSE IF month.err # "nil" THEN [expr |-> NilExpr, err |-> month.err]
       ELSE IF dayOfWeek.err # "nil" THEN [expr |-> NilExpr, err |-> dayOfWeek.err]
       ELSE [expr |-> [Seconds |-> seconds.v, Minutes |-> minutes.v,
                       Hours |-> hours.v, DayOfMonth |-> dayOfMonth.v,
                       Month |-> month.v, DayOfWeek |-> dayOfWeek.v],
             err |-> "nil"] :
         seconds \in {parseField(fields[1], 0, 59, NoNames)},
         minutes \in {parseField(fields[2], 0, 59, NoNames)},
         hours \in {parseField(fields[3], 0, 23, NoNames)},
         dayOfMonth \in {parseField(fields[4], 1, 31, NoNames)},
         month \in {parseField(fields[5], 1, 12, monthNameToNumber)},
         dayOfWeek \in {parseField(fields[6], 0, 6, dayNameToNumber)}})

parseSixOrMore(expr) ==
  The({IF Len(fields) < 6 THEN [expr |-> NilExpr, err |-> "invalid cron expression"]
       ELSE parseFields(fields) :
         fields \in {Fields(expr)}})

ParseCronExpression(expr) ==
  The({IF Len(fields) # 6 THEN [expr |-> NilExpr, err |-> "invalid cron expression"]
       ELSE parseFields(fields) :
         fields \in {Fields(expr)}})

(***************************************************************************)
(* Wall-clock fields of an instant (package time).                         *)
(***************************************************************************)
IsLeap(y) == (y % 4 = 0 /\ y % 100 # 0) \/ y % 400 = 0

DaysInYear(y) == IF IsLeap(y) THEN 366 ELSE 365

DaysInMonth(y, m) ==
  IF m = 2 THEN (IF IsLeap(y) THEN 29 ELSE 28)
  ELSE IF m \in {4, 6, 9, 11} THEN 30 ELSE 31

\* <<year, day of the year from 0>> of a day counted from 2023-01-01
RECURSIVE YearOf(_, _)
YearOf(y, d) == IF d < DaysInYear(y) THEN <<y, d>> ELSE YearOf(y + 1, d - DaysInYear(y))

\* <<month, day of the month>> of day d (from 0) of year y
RECURSIVE MonthOf(_, _, _)
MonthOf(y, m, d) ==
  IF d < DaysInMonth(y, m) THEN <<m, d + 1>> ELSE MonthOf(y, m + 1, d - DaysInMonth(y, m))

TSecond(t) == t % 60
TMinute(t) == (t \div 60) % 60
THour(t) == (t \div 3600) % 24
TMonth(t) == LET yd == YearOf(2023, t \div 86400) IN MonthOf(yd[1], 1, yd[2])[1]
TDay(t) == LET yd == YearOf(2023, t \div 86400) IN MonthOf(yd[1], 1, yd[2])[2]
\* time.Weekday: Sunday = 0; 2023-01-01 is a Sunday
TWeekday(t) == (t \div 86400) % 7

(***************************************************************************)
(* cronjob.go: the pure functions                                          *)
(***************************************************************************)
contains(list, value) == \E i \in 1..Len(list) : list[i] = value

matchesEitherDay(expr, t) ==
  /\ contains(expr.Seconds, TSecond(t))
  /\ contains(expr.Minutes, TMinute(t))
  /\ contains(expr.Hours, THour(t))
  /\ contains(expr.Month, TMonth(t))
  /\ contains(expr.DayOfMonth, TDay(t)) \/ contains(expr.DayOfWeek, TWeekday(t) % 7)

isTimeMatching(expr, t) ==
  IF ~contains(expr.Seconds, TSecond(t)) THEN FALSE
  ELSE IF ~contains(expr.Minutes, TMinute(t)) THEN FALSE
  ELSE IF ~contains(expr.Hours, THour(t)) THEN FALSE
  ELSE IF ~contains(expr.DayOfMonth, TDay(t)) THEN FALSE
  ELSE IF ~contains(expr.Month, TMonth(t)) THEN FALSE
  ELSE LET weekday == IF TWeekday(t) = 0 THEN 7 ELSE TWeekday(t)
       IN contains(expr.DayOfWeek, weekday % 7)

maxIterations == 1000000

\* time.Time{}: the zero time, before every instant of the model
ZeroTime == 0 - 1

\* Lines 112-122.  The scan starts at the whole second after fromTime and
\* returns the first of maxIterations candidates that matches.  The first
\* hit is located by halving the range of candidates, each half searched in
\* order, which is the candidate the one-by-one loop stops at.
firstMatch(schedule, nextTime) ==
  LET Hit(k) == isTimeMatching(schedule, nextTime + k)
      RECURSIVE first(_, _)
      first(lo, hi) ==
        IF lo = hi THEN lo
        ELSE IF \E k \in lo..((lo + hi) \div 2) : Hit(k)
             THEN first(lo, (lo + hi) \div 2)
             ELSE first((lo + hi) \div 2 + 1, hi)
  IN IF \E k \in 0..(maxIterations - 1) : Hit(k)
     THEN nextTime + first(0, maxIterations - 1)
     ELSE ZeroTime

\* time.Second, in nanoseconds
Second == 1000000000

\* A time.Time with its sub-second part is [sec, nsec]; t.Add(d) for a
\* duration 0 <= d <= Second
Add(t, d) ==
  [sec |-> t.sec + (t.nsec + d) \div Second, nsec |-> (t.nsec + d) % Second]

sameSecond(fromTime) == [sec |-> fromTime.sec, nsec |-> 0]

\* line 112: fromTime.Add(time.Second - time.Duration(fromTime.Nanosecond()))
nextSecond(fromTime) == Add(fromTime, Second - fromTime.nsec)

\* time.Time{} with its sub-second part
ZeroTimeNs == [sec |-> ZeroTime, nsec |-> 0]

\* lines 110-123, for a fromTime with its sub-second part: the candidates
\* keep the sub-second part of the first
nextRunTimeNs(expr, fromTime) ==
  The({The({IF hit = ZeroTime THEN ZeroTimeNs ELSE [sec |-> hit, nsec |-> nextTime.nsec] :
              hit \in {firstMatch(schedule, nextTime.sec)}}) :
         schedule \in {expr}, nextTime \in {nextSecond(fromTime)}})

\* lines 110-123, for an instant of the scheduler
nextRunTime(expr, fromTime) == nextRunTimeNs(expr, [sec |-> fromTime, nsec |-> 0]).sec

(***************************************************************************)
(* Bounds of the model and the inputs the callers draw from.               *)
(***************************************************************************)
NumCallers == 2      \* goroutines calling the API concurrently
MaxAdds == 2         \* AddJob calls that parse, in one behaviour
MaxStarts == 1       \* Start calls that launch a loop, in one behaviour
MaxTick == 2         \* advances of the clock, in one behaviour
CapAdds == 1         \* AddJob calls of the program with the sparse schedule
CapTicks == 1        \* advances of its clock
RestartAdds == 1     \* AddJob calls of the program that restarts the scheduler
RestartStarts == 2   \* its Start calls that launch a loop
RestartTicks == 2    \* advances of its clock
UntilTicks == 2      \* advances of the clock of the program that adds, then starts

\* 2023-01-01 14:15:29, the second in which the scheduler is constructed
ClockStart == 14 * 3600 + 15 * 60 + 29

Text(fields) ==
  LET RECURSIVE join(_)
      join(i) == IF i > Len(fields) THEN <<>>
                 ELSE IF i = 1 THEN fields[1] \o join(2)
                 ELSE <<" ">> \o fields[i] \o join(i + 1)
  IN join(1)

ExprEverySecond == Text(<<<<"*">>, <<"*">>, <<"*">>, <<"*">>, <<"*">>, <<"*">>>>)
ExprEvenSeconds == Text(<<<<"*", "/", "2">>, <<"*">>, <<"*">>, <<"*">>, <<"*">>, <<"*">>>>)
ExprInvalid == Text(<<<<"i","n","v","a","l","i","d">>, <<"c","r","o","n">>>>)
ExprMonthly == Text(<<<<"0">>, <<"0">>, <<"0">>, <<"1">>, <<"*">>, <<"*">>>>)

\* what a task does when invoked: return, panic, or never return
TaskKinds == {"quick", "panic", "block"}

\* the (expression, task) arguments callers pass to AddJob, each with what
\* ParseCronExpression returns for the expression (line 33), computed once
Arg(expr, task) ==
  [expr |-> expr, task |-> task, parsed |-> ParseCronExpression(expr)]

\* how far one behaviour goes
Limits(adds, startCalls, tickCount) ==
  [adds |-> adds, starts |-> startCalls, ticks |-> tickCount]

CallerIds == 1..NumCallers

(***************************************************************************)
(* State.  Jobs, mutex, running, stop are the fields of CronScheduler;     *)
(* the rest is the Go runtime around it (channels, goroutines, the clock)  *)
(* and history variables the properties read.                              *)
(***************************************************************************)
VARIABLES
  Jobs,      \* c.Jobs: sequence of jobs [id, expr, Task, at, gen]
  mutex,     \* c.mutex: Free or the goroutine holding it
  running,   \* c.running
  stop,      \* c.stop: NilChan or a channel
  closed,    \* the channels that have been closed
  nChans,    \* channels made so far
  call,      \* per caller goroutine: the API call it is inside
  ret,       \* what the step just taken returned to its caller, if it returned
  loop,      \* the loop goroutines launched so far: position and locals
  tasks,     \* task goroutines that have not returned
  clock,     \* the current whole second
  ticks,     \* advances of the clock so far
  crashed,   \* an unrecovered panic ended the process
  pool,      \* the arguments callers pass to AddJob
  limit,     \* how far this behaviour goes (Limits)
  probe,     \* an input of a function called directly, and its result
  nextId,    \* identity of the next *Job allocated
  removed,   \* history: identities of the jobs RemoveJob took out
  starts,    \* Start calls that set running so far
  startedAt, \* history: <<starts, clock>> when the latest such Start returned
  fired      \* history: every task invocation [job, at, loop, pass]

vars == <<Jobs, mutex, running, stop, closed, nChans, call, ret, loop, tasks, clock,
          ticks, crashed, pool, limit, probe, nextId, removed, starts, startedAt, fired>>

Free == <<"free", 0>>
Caller(c) == <<"caller", c>>
Loop(l) == <<"loop", l>>

NilChan == 0
NoJob == [id |-> 0, expr |-> <<>>, Task |-> "none", at |-> 0, gen |-> 0]

\* job.Schedule: the *CronExpression the parse of line 33 returned for the
\* expression the job was added with
Schedule(job) == (CHOOSE a \in pool : a.expr = job.expr).parsed.expr

NoRet == [op |-> "none", expr |-> <<>>, index |-> 0, err |-> "none", list |-> <<>>]

IdleCall == [op |-> "none", pc |-> "idle", job |-> NoJob, jobs |-> <<>>, spawn |-> 0]

NoLoop ==
  [pc |-> "none", now |-> 0, nextRun |-> 0, deadline |-> 0, stopCh |-> NilChan,
   seen |-> {}, dueNow |-> 0, jobsToRun |-> <<>>, passes |-> 0]

\* NewCronScheduler (lines 25-29) with the environment around it, and c.Jobs
\* as jobs
InitJobs(jobs, args, limits) ==
  /\ Jobs = jobs
  /\ mutex = Free
  /\ running = FALSE
  /\ stop = NilChan
  /\ closed = {}
  /\ nChans = 0
  /\ call = [c \in CallerIds |-> IdleCall]
  /\ ret = NoRet
  /\ loop = <<>>
  /\ tasks = {}
  /\ clock = ClockStart
  /\ ticks = 0
  /\ crashed = FALSE
  /\ pool = args
  /\ limit = limits
  /\ nextId = Len(jobs) + 1
  /\ removed = {}
  /\ starts = 0
  /\ startedAt = <<0, 0>>
  /\ fired = {}

\* NewCronScheduler (lines 25-29): Jobs is empty
InitWith(args, limits) == InitJobs(<<>>, args, limits)

\* no function is called directly
NoProbe ==
  [fn |-> "none", pos |-> 0, kind |-> "none", a |-> 0, b |-> 0, named |-> FALSE,
   date |-> <<>>, done |-> FALSE, parsed |-> [expr |-> NilExpr, err |-> "none"], matched |-> FALSE,
   next |-> ZeroTimeNs]

Init ==
  /\ InitWith({Arg(ExprEverySecond, "quick"), Arg(ExprEverySecond, "panic"),
               Arg(ExprEvenSeconds, "block"), Arg(ExprInvalid, "quick")},
              Limits(MaxAdds, MaxStarts, MaxTick))
  /\ probe = NoProbe

\* sync.Mutex.  A critical section that touches nothing but the fields the
\* mutex guards is one step: Lock as its guard, Unlock as its effect.  The
\* read-modify-write of AddJob is two steps, so that what the mutex excludes
\* is an interleaving of the model.
NoLock(p) == TRUE

Lock(p) == mutex = Free

KeepsLocked(p) == mutex' = p

Unlock(p) == mutex' = Free

\* a write of c.stop races with the loops' unsynchronized read in select:
\* a loop past its last critical section may observe any value written since
StopWritten(v) ==
  [l \in DOMAIN loop |-> IF loop[l].pc = "select" THEN [loop[l] EXCEPT !.seen = @ \cup {v}]
                         ELSE loop[l]]

(***************************************************************************)
(* The API, called from the caller goroutines.                             *)
(***************************************************************************)
Idle(c) == ~crashed /\ call[c].pc = "idle"
In(c, op, pc) == ~crashed /\ call[c].op = op /\ call[c].pc = pc

Returned(op, err) == [NoRet EXCEPT !.op = op, !.err = err]

\* AddJob, lines 33-40: the parse, the error return, the new *Job
AddJobParse(c) ==
  /\ Idle(c)
  /\ \E a \in pool :
       LET r == a.parsed
       IN IF r.err # "nil"
          THEN /\ ret' = [Returned("AddJob", r.err) EXCEPT !.expr = a.expr]
               /\ UNCHANGED <<call, nextId>>
          ELSE /\ nextId <= limit.adds
               /\ call' = [call EXCEPT ![c] =
                             [IdleCall EXCEPT
                                !.op = "AddJob", !.pc = "lock",
                                !.job = [NoJob EXCEPT !.id = nextId, !.expr = a.expr,
                                                      !.Task = a.task]]]
               /\ nextId' = nextId + 1
               /\ ret' = NoRet
  /\ UNCHANGED <<Jobs, mutex, running, stop, closed, nChans, loop, tasks, clock, ticks,
                 crashed, pool, limit, probe, removed, starts, startedAt, fired>>

\* AddJob, lines 41-42: Lock, and the read of c.Jobs in append(c.Jobs, job)
AddJobLock(c) ==
  /\ In(c, "AddJob", "lock")
  /\ Lock(Caller(c))
  /\ mutex' = Caller(c)
  /\ call' = [call EXCEPT ![c].pc = "append", ![c].jobs = Jobs]
  /\ ret' = NoRet
  /\ UNCHANGED <<Jobs, running, stop, closed, nChans, loop, tasks, clock, ticks,
                 crashed, pool, limit, probe, nextId, removed, starts, startedAt, fired>>

PrependJob(jobs, job) == <<job>> \o jobs

\* append(c.Jobs, job), line 42
AppendJob(jobs, job) == Append(jobs, job)

\* AddJob, lines 42-44: the assignment to c.Jobs, Unlock, return nil
AddJobAppend(c) ==
  /\ In(c, "AddJob", "append")
  /\ Jobs' = AppendJob(call[c].jobs,
                       [call[c].job EXCEPT !.at = clock, !.gen = startedAt[1]])
  /\ Unlock(Caller(c))
  /\ call' = [call EXCEPT ![c] = IdleCall]
  /\ ret' = [Returned("AddJob", "nil") EXCEPT !.expr = call[c].job.expr]
  /\ UNCHANGED <<running, stop, closed, nChans, loop, tasks, clock, ticks, crashed,
                 pool, limit, probe, nextId, removed, starts, startedAt, fired>>

IndexPastEnd(index, length) == index < 0 \/ index > length

\* the check of line 51
IndexOutOfRange(index, length) == index < 0 \/ index >= length

RemoveLast(jobs, index) == SubSeq(jobs, 1, Len(jobs) - 1)

\* append(c.Jobs[:index], c.Jobs[index+1:]...), line 54, with a 0-based index
RemoveAt(jobs, index) ==
  SubSeq(jobs, 1, index) \o SubSeq(jobs, index + 2, Len(jobs))

\* RemoveJob, lines 49-55 with the deferred Unlock
RemoveJob(c) ==
  /\ Idle(c)
  /\ Lock(Caller(c))
  /\ \E index \in (0 - 1)..Len(Jobs) :
       IF IndexOutOfRange(index, Len(Jobs))
       THEN /\ ret' = [Returned("RemoveJob", "index out of range") EXCEPT !.index = index]
            /\ UNCHANGED <<Jobs, removed>>
       ELSE /\ Jobs' = RemoveAt(Jobs, index)
            /\ removed' = removed \cup {Jobs[i].id : i \in {index + 1} \cap DOMAIN Jobs}
            /\ ret' = [Returned("RemoveJob", "nil") EXCEPT !.index = index]
  /\ Unlock(Caller(c))
  /\ UNCHANGED <<running, stop, closed, nChans, call, loop, tasks, clock, ticks,
                 crashed, pool, limit, probe, nextId, starts, startedAt, fired>>

\* fmt.Sprintf("Job %d: %v", i, job.Schedule), line 171: the index and the
\* schedule, which the expression determines
JobLine(i, job) == [index |-> i, schedule |-> job.expr]

\* ListJobs, lines 167-173 with the deferred Unlock
ListJobs(c) ==
  /\ Idle(c)
  /\ Lock(Caller(c))
  /\ ret' = [Returned("ListJobs", "nil") EXCEPT
                !.list = [i \in 1..Len(Jobs) |-> JobLine(i - 1, Jobs[i])]]
  /\ Unlock(Caller(c))
  /\ UNCHANGED <<Jobs, running, stop, closed, nChans, call, loop, tasks, clock,
                 ticks, crashed, pool, limit, probe, nextId, removed, starts, startedAt, fired>>

NeverSkips(flag) == FALSE

\* if c.running, line 61: Start returns at once
StartSkips(flag) == flag

KeepsChannel(ch) == ch = NilChan /\ nChans = 0

\* if c.stop == nil, line 66: Start makes a channel
NeedsChannel(ch) == ch = NilChan

\* Start, lines 60-69
Start(c) ==
  /\ Idle(c)
  /\ running \/ starts < limit.starts
  /\ Lock(Caller(c))
  /\ IF StartSkips(running)
     THEN /\ ret' = Returned("Start", "nil")
          /\ UNCHANGED <<running, stop, nChans, loop, starts, call>>
     ELSE /\ running' = TRUE
          /\ IF NeedsChannel(stop)
             THEN /\ nChans' = nChans + 1
                  /\ stop' = nChans + 1
                  /\ loop' = StopWritten(nChans + 1)
             ELSE UNCHANGED <<stop, nChans, loop>>
          /\ starts' = starts + 1
          /\ call' = [call EXCEPT ![c] =
                        [IdleCall EXCEPT !.op = "Start", !.pc = "go", !.spawn = starts + 1]]
          /\ ret' = NoRet
  /\ Unlock(Caller(c))
  /\ UNCHANGED <<Jobs, closed, tasks, clock, ticks, crashed, pool, limit, probe, nextId,
                 removed, startedAt, fired>>

\* Start, lines 71-97: the go statement, then Start returns
StartGo(c) ==
  /\ In(c, "Start", "go")
  /\ loop' = Append(loop, [NoLoop EXCEPT !.pc = "top"])
  /\ startedAt' = <<call[c].spawn, clock>>
  /\ call' = [call EXCEPT ![c] = IdleCall]
  /\ ret' = Returned("Start", "nil")
  /\ UNCHANGED <<Jobs, mutex, running, stop, closed, nChans, tasks, clock, ticks,
                 crashed, pool, limit, probe, nextId, removed, starts, fired>>

AlwaysActs(flag) == TRUE

\* if c.running, line 102: Stop acts
StopActs(flag) == flag

\* Stop, lines 101-107; close of a nil or closed channel panics
Stop(c) ==
  /\ Idle(c)
  /\ Lock(Caller(c))
  /\ IF StopActs(running)
     THEN IF stop = NilChan \/ stop \in closed
          THEN /\ crashed' = TRUE
               /\ ret' = NoRet
               /\ UNCHANGED <<running, stop, closed, loop, mutex>>
          ELSE /\ running' = FALSE
               /\ closed' = closed \cup {stop}
               /\ stop' = NilChan
               /\ loop' = StopWritten(NilChan)
               /\ Unlock(Caller(c))
               /\ ret' = Returned("Stop", "nil")
               /\ UNCHANGED crashed
     ELSE /\ Unlock(Caller(c))
          /\ ret' = Returned("Stop", "nil")
          /\ UNCHANGED <<running, stop, closed, loop, crashed>>
  /\ UNCHANGED <<Jobs, nChans, call, tasks, clock, ticks, pool, limit, probe, nextId,
                 removed, starts, startedAt, fired>>
(***************************************************************************)
(* The event loop goroutine launched by Start (lines 71-96) and the two    *)
(* methods it calls.  Durations are whole seconds: the loop's now and the  *)
(* creation of its timer fall in the same second (see Tick).               *)
(***************************************************************************)
OneYear == 31536000  \* time.Hour * 24 * 365, in seconds

RECURSIVE minDurationNoSkip(_, _, _, _)
minDurationNoSkip(jobs, i, now, minDuration) ==
  IF i > Len(jobs) THEN minDuration
  ELSE LET nextRun == nextRunTime(Schedule(jobs[i]), now)
       IN IF nextRun - now < minDuration
          THEN minDurationNoSkip(jobs, i + 1, now, nextRun - now)
          ELSE minDurationNoSkip(jobs, i + 1, now, minDuration)

\* timeUntilNextJob, lines 151-162: the loop over c.Jobs from position i
RECURSIVE minDurationFrom(_, _, _, _)
minDurationFrom(jobs, i, now, minDuration) ==
  IF i > Len(jobs) THEN minDuration
  ELSE LET nextRun == nextRunTime(Schedule(jobs[i]), now)
       IN IF nextRun = ZeroTime THEN minDurationFrom(jobs, i + 1, now, minDuration)
          ELSE IF nextRun - now < minDuration
               THEN minDurationFrom(jobs, i + 1, now, nextRun - now)
               ELSE minDurationFrom(jobs, i + 1, now, minDuration)

timeUntilNextJob(jobs, now) == minDurationFrom(jobs, 1, now, OneYear)

allJobs(jobs, now) == jobs

firstDue(jobs, now) ==
  LET due == SelectSeq(jobs, LAMBDA job : isTimeMatching(Schedule(job), now))
  IN IF due = <<>> THEN due ELSE <<due[1]>>

\* runDueJobs, lines 127-132
dueJobs(jobs, now) == SelectSeq(jobs, LAMBDA job : isTimeMatching(Schedule(job), now))

At(l, pc) == ~crashed /\ loop[l].pc = pc

LoopUnchanged ==
  /\ ret' = NoRet
  /\ UNCHANGED <<Jobs, running, stop, closed, nChans, call, clock, ticks, crashed,
                 pool, limit, probe, nextId, removed, starts, startedAt>>

\* lines 73-79: now := time.Now() and the running check under the mutex
LoopCheck(l) ==
  /\ At(l, "top")
  /\ Lock(Loop(l))
  /\ loop' = [loop EXCEPT ![l] = IF running THEN [@ EXCEPT !.pc = "next", !.now = clock]
                                            ELSE [NoLoop EXCEPT !.pc = "exit"]]
  /\ Unlock(Loop(l))
  /\ UNCHANGED <<tasks, fired>>
  /\ LoopUnchanged

\* line 81: timeUntilNextJob(now), lines 149-162 under the mutex
LoopNextRun(l) ==
  /\ At(l, "next")
  /\ Lock(Loop(l))
  /\ loop' = [loop EXCEPT ![l].pc = "select",
                          ![l].nextRun = timeUntilNextJob(Jobs, loop[l].now),
                          ![l].seen = {stop}]
  /\ Unlock(Loop(l))
  /\ UNCHANGED <<tasks, fired>>
  /\ LoopUnchanged

\* lines 82-88: the immediate branch, or the timer and the entry of select,
\* which reads c.stop without the mutex
LoopSelect(l) ==
  /\ At(l, "select")
  /\ IF loop[l].nextRun <= 0
     THEN loop' = [loop EXCEPT ![l].pc = "due", ![l].dueNow = loop[l].now, ![l].seen = {}]
     ELSE \E ch \in loop[l].seen :
            loop' = [loop EXCEPT ![l].pc = "wait", ![l].stopCh = ch, ![l].seen = {},
                                 ![l].deadline = clock + loop[l].nextRun]
  /\ UNCHANGED <<mutex, tasks, fired>>
  /\ LoopUnchanged

\* lines 89-90: case <-timer.C, then runDueJobs(time.Now())
LoopTimer(l) ==
  /\ At(l, "wait")
  /\ clock >= loop[l].deadline
  /\ loop' = [loop EXCEPT ![l].pc = "due", ![l].dueNow = clock]
  /\ UNCHANGED <<mutex, tasks, fired>>
  /\ LoopUnchanged

\* lines 91-93: case <-c.stop on a closed channel (a nil channel never is ready)
LoopStopped(l) ==
  /\ At(l, "wait")
  /\ loop[l].stopCh # NilChan
  /\ loop[l].stopCh \in closed
  /\ loop' = [loop EXCEPT ![l] = [NoLoop EXCEPT !.pc = "exit"]]
  /\ UNCHANGED <<mutex, tasks, fired>>
  /\ LoopUnchanged

\* runDueJobs, lines 126-133: the due jobs are selected under the mutex
LoopCollect(l) ==
  /\ At(l, "due")
  /\ Lock(Loop(l))
  /\ loop' = [loop EXCEPT ![l].pc = "spawn",
                          ![l].jobsToRun = dueJobs(Jobs, loop[l].dueNow)]
  /\ Unlock(Loop(l))
  /\ UNCHANGED <<tasks, fired>>
  /\ LoopUnchanged

Invocation(l, job) ==
  [job |-> job.id, at |-> loop[l].dueNow, loop |-> l, pass |-> loop[l].passes + 1]

RunsInline(jobsToRun) ==
  IF \E k \in DOMAIN jobsToRun : jobsToRun[k].Task = "block" THEN "task" ELSE "top"

\* the go statements of line 136 do not wait for the tasks: runDueJobs
\* returns and the loop is back at line 72
AfterGo(jobsToRun) == "top"

\* runDueJobs, lines 135-145: one goroutine per selected job; back to line 72
LoopSpawn(l) ==
  /\ At(l, "spawn")
  /\ LET new == {[inv |-> Invocation(l, loop[l].jobsToRun[i]),
                  kind |-> loop[l].jobsToRun[i].Task] : i \in 1..Len(loop[l].jobsToRun)}
     IN /\ tasks' = tasks \cup new
        /\ fired' = fired \cup {t.inv : t \in new}
  /\ loop' = [loop EXCEPT ![l] = [NoLoop EXCEPT !.pc = AfterGo(loop[l].jobsToRun),
                                                 !.passes = loop[l].passes + 1]]
  /\ UNCHANGED mutex
  /\ LoopUnchanged

(***************************************************************************)
(* Task goroutines (lines 136-144).                                        *)
(***************************************************************************)
Propagates(t) == FALSE

\* the deferred function of lines 137-142 recovers a panic of job.Task()
Recovers(t) == TRUE

\* job.Task() returns
TaskReturn(t) ==
  /\ ~crashed
  /\ t.kind = "quick"
  /\ tasks' = tasks \ {t}
  /\ ret' = NoRet
  /\ UNCHANGED <<Jobs, mutex, running, stop, closed, nChans, call, loop, clock,
                 ticks, crashed, pool, limit, probe, nextId, removed, starts, startedAt, fired>>

\* job.Task() panics: recovered and logged in its own goroutine, else the
\* process ends
TaskPanic(t) ==
  /\ ~crashed
  /\ t.kind = "panic"
  /\ IF Recovers(t) THEN tasks' = tasks \ {t} /\ UNCHANGED crashed
                    ELSE crashed' = TRUE /\ UNCHANGED tasks
  /\ ret' = NoRet
  /\ UNCHANGED <<Jobs, mutex, running, stop, closed, nChans, call, loop, clock,
                 ticks, pool, limit, probe, nextId, removed, starts, startedAt, fired>>

(***************************************************************************)
(* Time.  A loop iteration and a returning task take less than a second:   *)
(* the clock advances only when every live loop is waiting in its select   *)
(* with nothing ready, so a timer is served in the second it is due.       *)
(***************************************************************************)
Waiting(l) ==
  /\ loop[l].pc = "wait"
  /\ loop[l].deadline > clock
  /\ ~(loop[l].stopCh # NilChan /\ loop[l].stopCh \in closed)

Quiet ==
  /\ \A l \in DOMAIN loop : loop[l].pc \in {"none", "exit"} \/ Waiting(l)
  /\ \A t \in tasks : t.kind = "block"

TimeUnchanged ==
  /\ ret' = NoRet
  /\ UNCHANGED <<Jobs, mutex, running, stop, closed, nChans, call, loop, tasks,
                 crashed, pool, limit, probe, nextId, removed, starts, startedAt, fired>>

\* one second passes
Tick ==
  /\ ~crashed
  /\ Quiet
  /\ ticks < limit.ticks
  /\ clock' = clock + 1
  /\ ticks' = ticks + 1
  /\ TimeUnchanged

\* nothing happens until the earliest pending timer is due
Sleep ==
  /\ ~crashed
  /\ Quiet
  /\ ticks < limit.ticks
  /\ \E l \in DOMAIN loop :
       /\ loop[l].pc = "wait"
       /\ loop[l].deadline > clock + 1
       /\ \A m \in DOMAIN loop : loop[m].pc = "wait" => loop[m].deadline >= loop[l].deadline
       /\ clock' = loop[l].deadline
  /\ ticks' = ticks + 1
  /\ TimeUnchanged

Next ==
  \/ \E c \in CallerIds : AddJobParse(c)
  \/ \E c \in CallerIds : AddJobLock(c)
  \/ \E c \in CallerIds : AddJobAppend(c)
  \/ \E c \in CallerIds : RemoveJob(c)
  \/ \E c \in CallerIds : ListJobs(c)
  \/ \E c \in CallerIds : Start(c)
  \/ \E c \in CallerIds : StartGo(c)
  \/ \E c \in CallerIds : Stop(c)
  \/ \E l \in DOMAIN loop : LoopCheck(l)
  \/ \E l \in DOMAIN loop : LoopNextRun(l)
  \/ \E l \in DOMAIN loop : LoopSelect(l)
  \/ \E l \in DOMAIN loop : LoopTimer(l)
  \/ \E l \in DOMAIN loop : LoopStopped(l)
  \/ \E l \in DOMAIN loop : LoopCollect(l)
  \/ \E l \in DOMAIN loop : LoopSpawn(l)
  \/ \E t \in tasks : TaskReturn(t)
  \/ \E t \in tasks : TaskPanic(t)
  \/ Tick

Spec == Init /\ [][Next]_vars

(***************************************************************************)
(* A program that registers a job on a sparse schedule and starts the     *)
(* scheduler, and never stops it: time passes in the long sleeps of the    *)
(* loop.                                                                   *)
(***************************************************************************)
InitCap ==
  /\ InitWith({Arg(ExprMonthly, "quick")}, Limits(CapAdds, MaxStarts, CapTicks))
  /\ probe = NoProbe

NextCap ==
  \/ \E c \in CallerIds : AddJobParse(c)
  \/ \E c \in CallerIds : AddJobLock(c)
  \/ \E c \in CallerIds : AddJobAppend(c)
  \/ \E c \in CallerIds : Start(c)
  \/ \E c \in CallerIds : StartGo(c)
  \/ \E l \in DOMAIN loop : LoopCheck(l)
  \/ \E l \in DOMAIN loop : LoopNextRun(l)
  \/ \E l \in DOMAIN loop : LoopSelect(l)
  \/ \E l \in DOMAIN loop : LoopTimer(l)
  \/ \E l \in DOMAIN loop : LoopCollect(l)
  \/ \E l \in DOMAIN loop : LoopSpawn(l)
  \/ Tick
  \/ Sleep

SpecCap == InitCap /\ [][NextCap]_vars


(***************************************************************************)
(* A program that registers an every-second job and starts, stops and      *)
(* starts the scheduler again, in any interleaving of its callers.         *)
(***************************************************************************)
InitRestart ==
  /\ InitWith({Arg(ExprEverySecond, "quick")},
              Limits(RestartAdds, RestartStarts, RestartTicks))
  /\ probe = NoProbe

NextRestart ==
  \/ \E c \in CallerIds : AddJobParse(c)
  \/ \E c \in CallerIds : AddJobLock(c)
  \/ \E c \in CallerIds : AddJobAppend(c)
  \/ \E c \in CallerIds : Start(c)
  \/ \E c \in CallerIds : StartGo(c)
  \/ \E c \in CallerIds : Stop(c)
  \/ \E l \in DOMAIN loop : LoopCheck(l)
  \/ \E l \in DOMAIN loop : LoopNextRun(l)
  \/ \E l \in DOMAIN loop : LoopSelect(l)
  \/ \E l \in DOMAIN loop : LoopTimer(l)
  \/ \E l \in DOMAIN loop : LoopStopped(l)
  \/ \E l \in DOMAIN loop : LoopCollect(l)
  \/ \E l \in DOMAIN loop : LoopSpawn(l)
  \/ \E t \in tasks : TaskReturn(t)
  \/ Tick

SpecRestart == InitRestart /\ [][NextRestart]_vars


(***************************************************************************)
(* A program that registers its jobs, as the example main does, and then   *)
(* starts the scheduler and lets time pass.                                *)
(***************************************************************************)
\* c.Jobs after AddJob was called with each expression in turn (lines 32-45)
Registry(exprs) ==
  [i \in 1..Len(exprs) |->
     [NoJob EXCEPT !.id = i, !.expr = exprs[i], !.Task = "quick", !.at = ClockStart]]

\* the expressions registered, in the order of the calls
UntilRegistries ==
  {<<>>, <<ExprMonthly>>, <<ExprEvenSeconds>>, <<ExprEverySecond>>,
   <<ExprMonthly, ExprEvenSeconds>>, <<ExprEverySecond, ExprMonthly>>,
   <<ExprEvenSeconds, ExprEverySecond>>, <<ExprEverySecond, ExprEvenSeconds>>}

InitUntil ==
  /\ \E exprs \in UntilRegistries :
       InitJobs(Registry(exprs),
                {Arg(ExprEverySecond, "quick"), Arg(ExprEvenSeconds, "quick"),
                 Arg(ExprMonthly, "quick")},
                Limits(0, MaxStarts, UntilTicks))
  /\ probe = NoProbe

NextUntil ==
  \/ \E c \in CallerIds : Start(c)
  \/ \E c \in CallerIds : StartGo(c)
  \/ \E l \in DOMAIN loop : LoopCheck(l)
  \/ \E l \in DOMAIN loop : LoopNextRun(l)
  \/ \E l \in DOMAIN loop : LoopSelect(l)
  \/ \E l \in DOMAIN loop : LoopTimer(l)
  \/ \E l \in DOMAIN loop : LoopCollect(l)
  \/ \E l \in DOMAIN loop : LoopSpawn(l)
  \/ \E t \in tasks : TaskReturn(t)
  \/ Tick

SpecUntil == InitUntil /\ [][NextUntil]_vars

(***************************************************************************)
(* The pure functions called directly, as the tests of cronjob_test.go     *)
(* call them: one input, drawn by the initial state, and one application.  *)
(***************************************************************************)
SchedulerUnchanged ==
  UNCHANGED <<Jobs, mutex, running, stop, closed, nChans, call, ret, loop, tasks,
              clock, ticks, crashed, pool, limit, nextId, removed, starts,
              startedAt, fired>>

NoLimits == Limits(0, 0, 0)

\* days of the months of 2023
MonthDays2023 == <<31, 28, 31, 30, 31, 30, 31, 31, 30, 31, 30, 31>>

RECURSIVE DaysBefore2023(_)
DaysBefore2023(month) ==
  IF month = 1 THEN 0 ELSE DaysBefore2023(month - 1) + MonthDays2023[month - 1]

\* time.Date(2023, month, day, hour, min, sec, 0, time.UTC) for
\* date = <<month, day, hour, min, sec>>
Date(date) ==
  ((DaysBefore2023(date[1]) + date[2] - 1) * 24 + date[3]) * 3600
    + date[4] * 60 + date[5]

\* the expressions isTimeMatching is called with
MatchExprs ==
  <<Text(<<<<"3","0">>, <<"1","5">>, <<"1","4">>, <<"1">>, <<"1">>, <<"*">>>>),
    Text(<<<<"*">>, <<"*">>, <<"*">>, <<"1">>, <<"*">>, <<"M","o","n">>>>),
    Text(<<<<"*">>, <<"*">>, <<"*">>, <<"*">>, <<"*">>, <<"S","u","n">>>>),
    Text(<<<<"*">>, <<"*">>, <<"*">>, <<"2">>, <<"*">>, <<"1">>>>),
    Text(<<<<"*">>, <<"*">>, <<"*">>, <<"3","1">>, <<"J","a","n","-","M","a","r">>,
           <<"T","u","e",",","F","r","i">>>>),
    Text(<<<<"*","/","3","0">>, <<"0",",","5","9">>, <<"0",",","2","3">>, <<"*">>,
           <<"*">>, <<"*">>>>),
    ExprEverySecond>>

\* the instants it is called with
MatchDates ==
  {<<month, day, hour, min, sec>> :
     month \in {1, 2, 3}, day \in {1, 2, 28, 31},
     hour \in {0, 14, 23}, min \in {0, 15, 59}, sec \in {0, 30, 31}}

MatchProbes ==
  {[NoProbe EXCEPT !.fn = "match", !.pos = e, !.date = d] :
     e \in DOMAIN MatchExprs,
     d \in {x \in MatchDates : x[2] <= MonthDays2023[x[1]]}}

\* TestIsTimeMatching, lines 102-118: parse, then isTimeMatching(expr, t)
ApplyMatch ==
  /\ probe.fn = "match"
  /\ ~probe.done
  /\ \E r \in {ParseCronExpression(MatchExprs[probe.pos])} :
       probe' = [probe EXCEPT !.done = TRUE, !.parsed = r,
                              !.matched = isTimeMatching(r.expr, Date(probe.date))]
  /\ SchedulerUnchanged

InitMatch == InitWith({}, NoLimits) /\ probe \in MatchProbes

NextMatch == ApplyMatch

SpecMatch == InitMatch /\ [][NextMatch]_vars

\* strconv.Itoa, which writes the literals of the inputs
RECURSIVE ItoaDigits(_)
ItoaDigits(n) ==
  IF n < 10 THEN <<Digits[n + 1]>>
  ELSE ItoaDigits(n \div 10) \o <<Digits[(n % 10) + 1]>>

Itoa(n) == IF n < 0 THEN <<"-">> \o ItoaDigits(0 - n) ELSE ItoaDigits(n)

\* the legal range of each of the six fields, lines 255-283
FieldMin == <<0, 0, 0, 1, 1, 0>>
FieldMax == <<59, 59, 23, 31, 12, 6>>

\* the names of lines 223-246, by number
MonthNames ==
  <<<<"J","a","n">>, <<"F","e","b">>, <<"M","a","r">>, <<"A","p","r">>,
    <<"M","a","y">>, <<"J","u","n">>, <<"J","u","l">>, <<"A","u","g">>,
    <<"S","e","p">>, <<"O","c","t">>, <<"N","o","v">>, <<"D","e","c">>>>

DayNames ==
  <<<<"S","u","n">>, <<"M","o","n">>, <<"T","u","e">>, <<"W","e","d">>,
    <<"T","h","u">>, <<"F","r","i">>, <<"S","a","t">>>>

HasName(pos, n) == (pos = 5 /\ n \in 1..12) \/ (pos = 6 /\ n \in 0..6)
NameOf(pos, n) == IF pos = 5 THEN MonthNames[n] ELSE DayNames[n + 1]

\* a name as written: Jan, jan or JAN
Styled(name, style) ==
  IF style = 1 THEN ToLower(name)
  ELSE IF style = 2 THEN [i \in 1..Len(name) |-> ToUpperCh(name[i])]
  ELSE name

Literal(pos, n, named) == IF named THEN NameOf(pos, n) ELSE Itoa(n)

\* tokens that are neither integers nor names, nor well-formed lists,
\* ranges or steps of them
JunkTokens ==
  <<<<"a","b","c">>, <<"S","u","n","F","u","n","d","a","y">>,
    <<"1",",",",","2">>, <<"1","-","2","-","3">>, <<"1","-">>, <<"-">>,
    <<"1","/","2","/","3">>, <<"*","/","x">>, <<"/","2">>, <<"1",",">>,
    <<"*","/","0">>, <<"1",".","5">>, <<"*","*">>>>

\* a name of the other table (of either, in a field without names)
ForeignName(pos) == IF pos = 6 THEN MonthNames[1] ELSE DayNames[2]

\* the values tried in a field: around its least and its greatest
FieldValues(pos) ==
  {FieldMin[pos] - 1, FieldMin[pos], FieldMin[pos] + 1,
   FieldMax[pos] - 1, FieldMax[pos], FieldMax[pos] + 1}

\* separators of the inputs that differ in their number of fields
Separator(style) ==
  IF style = 2 THEN <<" ", " ">> ELSE IF style = 3 THEN <<"\t">> ELSE <<" ">>

RECURSIVE Stars(_, _)
Stars(n, style) ==
  IF n = 0 THEN <<>>
  ELSE IF n = 1 THEN <<"*">>
  ELSE <<"*">> \o Separator(style) \o Stars(n - 1, style)

\* n fields "*", separated by one space, two spaces or a tab, or with a
\* space before and after
CountText(n, style) ==
  IF style = 4 THEN <<" ">> \o Stars(n, style) \o <<" ">> ELSE Stars(n, style)

\* the field an input puts at its position
FieldText(p) ==
  CASE p.kind = "star" -> <<"*">>
    [] p.kind = "value" ->
         IF p.named THEN Styled(NameOf(p.pos, p.a), p.b) ELSE Itoa(p.a)
    [] p.kind = "list" ->
         Literal(p.pos, p.a, p.named) \o <<",">> \o Literal(p.pos, p.b, p.named)
    [] p.kind = "range" ->
         Literal(p.pos, p.a, p.named) \o <<"-">> \o Literal(p.pos, p.b, p.named)
    [] p.kind = "step" -> <<"*", "/">> \o Itoa(p.b)
    [] p.kind = "stepvalue" -> Itoa(p.a) \o <<"/">> \o Itoa(p.b)
    [] p.kind = "steprange" ->
         Itoa(p.a) \o <<"-">> \o Itoa(p.b) \o <<"/", "3">>
    [] p.kind = "steplist" ->
         Itoa(p.a) \o <<",">> \o Itoa(p.b) \o <<"/", "2">>
    [] p.kind = "foreign" -> ForeignName(p.pos)
    [] OTHER -> JunkTokens[p.a]

\* the expression of an input: its field at its position among "*" fields
ProbeExpr(p) ==
  IF p.kind = "count" THEN CountText(p.a, p.b)
  ELSE Text([i \in 1..6 |-> IF i = p.pos THEN FieldText(p) ELSE <<"*">>])

ParseProbe(pos, kind, a, b, named) ==
  [NoProbe EXCEPT !.fn = "parse", !.pos = pos, !.kind = kind, !.a = a, !.b = b,
                  !.named = named]

NamedValues(pos) == {n \in FieldValues(pos) : HasName(pos, n)}

\* the inputs that vary the field at one position
FieldProbes(pos) ==
  {ParseProbe(pos, "star", 0, 0, FALSE), ParseProbe(pos, "foreign", 0, 0, FALSE)}
    \cup {ParseProbe(pos, "value", a, 0, FALSE) : a \in FieldValues(pos)}
    \cup {ParseProbe(pos, "value", a, style, TRUE) :
            a \in NamedValues(pos), style \in 0..2}
    \cup {ParseProbe(pos, kind, a, b, FALSE) :
            kind \in {"list", "range", "steprange", "steplist"},
            a \in FieldValues(pos), b \in FieldValues(pos)}
    \cup {ParseProbe(pos, kind, a, b, TRUE) :
            kind \in {"list", "range"},
            a \in NamedValues(pos), b \in NamedValues(pos)}
    \cup {ParseProbe(pos, "step", 0, b, FALSE) : b \in {0 - 1, 0, 1, 2, FieldMax[pos] + 1}}
    \cup {ParseProbe(pos, "stepvalue", a, 2, FALSE) : a \in FieldValues(pos)}
    \cup {ParseProbe(pos, "junk", a, 0, FALSE) : a \in DOMAIN JunkTokens}

ParseProbes ==
  UNION {FieldProbes(pos) : pos \in 1..6}
    \cup {ParseProbe(1, "count", n, style, FALSE) : n \in 0..8, style \in 1..4}

ExprFiveFields == Text(<<<<"*">>, <<"*">>, <<"*">>, <<"*">>, <<"*">>>>)

\* TestParseCronExpression, lines 10-42: ParseCronExpression(test.expr)
ApplyParse ==
  /\ probe.fn = "parse"
  /\ ~probe.done
  /\ probe' = [probe EXCEPT !.done = TRUE,
                            !.parsed = ParseCronExpression(ProbeExpr(probe))]
  /\ SchedulerUnchanged

InitParse == InitWith({Arg(ExprFiveFields, "quick")}, NoLimits) /\ probe \in ParseProbes

NextParse ==
  \/ ApplyParse
  \/ \E c \in CallerIds : AddJobParse(c)

SpecParse == InitParse /\ [][NextParse]_vars

(***************************************************************************)
(* nextRunTime called directly, as timeUntilNextJob calls it with          *)
(* time.Now(): an expression, and a fromTime with a sub-second part.       *)
(***************************************************************************)
\* the expressions nextRunTime is called with: every second, once a year
\* (1 January 14:15:30), every midnight, midnight of 31 February, Friday the 13th at noon
NextExprs ==
  <<ExprEverySecond,
    Text(<<<<"3","0">>, <<"1","5">>, <<"1","4">>, <<"1">>, <<"1">>, <<"*">>>>),
    Text(<<<<"0">>, <<"0">>, <<"0">>, <<"*">>, <<"*">>, <<"*">>>>),
    Text(<<<<"0">>, <<"0">>, <<"0">>, <<"3","1">>, <<"2">>, <<"*">>>>),
    Text(<<<<"0">>, <<"0">>, <<"1","2">>, <<"1","3">>, <<"*">>, <<"F","r","i">>>>)>>

\* the seconds of 2023 it is called in: Friday 13 January 12:00:00 is the
\* 1,000,000th second after 1 January 22:13:20
NextDates ==
  {<<1, 1, 0, 0, 0>>, <<1, 1, 14, 15, 29>>, <<1, 1, 14, 15, 30>>,
   <<1, 1, 22, 13, 19>>, <<1, 1, 22, 13, 20>>, <<2, 28, 23, 59, 59>>,
   <<12, 20, 0, 0, 0>>, <<12, 31, 23, 59, 59>>}

\* fromTime.Nanosecond()
NextNanos == {0, Second - 1}

NextProbes ==
  {[NoProbe EXCEPT !.fn = "next", !.pos = e, !.date = d, !.a = n] :
     e \in DOMAIN NextExprs, d \in NextDates, n \in NextNanos}

\* the fromTime of an input
ProbeFrom(p) == [sec |-> Date(p.date), nsec |-> p.a]

\* line 150: nextRunTime(job.Schedule, now) on a parsed expression
ApplyNext ==
  /\ probe.fn = "next"
  /\ ~probe.done
  /\ \E r \in {ParseCronExpression(NextExprs[probe.pos])} :
       probe' = [probe EXCEPT !.done = TRUE, !.parsed = r,
                              !.next = nextRunTimeNs(r.expr, ProbeFrom(probe))]
  /\ SchedulerUnchanged

InitNext == InitWith({}, NoLimits) /\ probe \in NextProbes

NextNext == ApplyNext

SpecNext == InitNext /\ [][NextNext]_vars

(***************************************************************************)
(* Properties.                                                             *)
(***************************************************************************)
Matches(job, t) == isTimeMatching(Schedule(job), t)
FiredAt(job, t) == \E f \in fired : f.job = job.id /\ f.at = t
Registered(job) == \E i \in DOMAIN Jobs : Jobs[i] = job

\* 2023-02-01 00:00:00, the first instant "0 0 0 1 * *" matches
FirstOfFebruary == 31 * 86400

\* the seconds a behaviour passes one by one, and the first of February
Instants == (ClockStart + 1)..(ClockStart + limit.ticks) \cup {FirstOfFebruary}

\* every matching instant in (from, clock] has an invocation of the job
FiredSince(job, from) ==
  \A t \in Instants : (from < t /\ t <= clock /\ Matches(job, t)) => FiredAt(job, t)

\* the latest Start that set running has returned and no Stop followed
Started == running /\ starts >= 1 /\ startedAt[1] = starts

\* C1: while the scheduler is running, a job registered before Start has been
\* invoked for every matching second the clock has passed since Start, once
\* the loop has served the timers that were due
C1_RegisteredBeforeStartFires ==
  (Started /\ Quiet) =>
    \A i \in DOMAIN Jobs :
      Jobs[i].gen < startedAt[1] => FiredSince(Jobs[i], startedAt[2])

\* C2: the jobs a due-job pass selects are jobs of the registry whose
\* expression matches the instant of the pass, and every invocation that
\* starts is of a job a pass selected, for the instant of that pass
C2_step ==
  /\ \A l \in DOMAIN loop :
       (loop[l].pc = "due" /\ loop'[l].pc = "spawn") =>
         \A k \in DOMAIN loop'[l].jobsToRun :
           /\ Registered(loop'[l].jobsToRun[k])
           /\ Matches(loop'[l].jobsToRun[k], loop[l].dueNow)
  /\ \A f \in fired' \ fired :
       /\ f.loop \in DOMAIN loop
       /\ loop[f.loop].pc = "spawn"
       /\ f.at = loop[f.loop].dueNow
       /\ \E k \in DOMAIN loop[f.loop].jobsToRun :
            /\ loop[f.loop].jobsToRun[k].id = f.job
            /\ Matches(loop[f.loop].jobsToRun[k], f.at)

C2_OnlyDueJobsFire == [][C2_step]_vars

\* the every-second job fired at an odd second for which the even-seconds
\* job, in the registry beside it, was not fired; the latter had fired a
\* second earlier
C2_witness ==
  \E i, j \in DOMAIN Jobs :
    /\ Jobs[i].expr = ExprEverySecond
    /\ Jobs[j].expr = ExprEvenSeconds
    /\ Jobs[j].at = ClockStart
    /\ FiredAt(Jobs[j], ClockStart + 1)
    /\ FiredAt(Jobs[i], ClockStart + 2)
    /\ ~FiredAt(Jobs[j], ClockStart + 2)

\* C3: while the scheduler is running, a job added after Start returned has
\* been invoked for every matching second the clock has passed since the
\* add (the first one included), once the loop has served the timers due
C3_AddedWhileRunningFires ==
  (Started /\ Quiet) =>
    \A i \in DOMAIN Jobs :
      Jobs[i].gen = startedAt[1] => FiredSince(Jobs[i], Jobs[i].at)

\* C4: once Stop has returned and no Start follows, no loop begins a due-job
\* pass and no task is started
C4_step ==
  (~running /\ starts >= 1 /\ \A c \in CallerIds : call[c].op # "Start") =>
    /\ fired' = fired
    /\ \A l \in DOMAIN loop : loop'[l].pc = "spawn" => loop[l].pc = "spawn"

C4_NothingFiresAfterStop == [][C4_step]_vars

\* C5: when Stop returns, no task the scheduler started is still executing
C5_NoTaskLeftRunning == ret.op = "Stop" => tasks = {}

\* C6: a panic of a task never ends the process; the step in which it is
\* recovered changes neither the loops nor any other task; and while the
\* scheduler runs beside a panicking job, every other job registered before
\* Start is still invoked for every matching second
C6_step ==
  \A t \in tasks :
    (t.kind = "panic" /\ t \notin tasks') =>
      /\ tasks' = tasks \ {t}
      /\ loop' = loop
      /\ fired' = fired
      /\ ~crashed'

C6_state ==
  /\ ~crashed
  /\ (Started /\ Quiet /\ \E f \in fired : \E i \in DOMAIN Jobs :
                             Jobs[i].id = f.job /\ Jobs[i].Task = "panic") =>
       \A j \in DOMAIN Jobs :
         (Jobs[j].Task # "panic" /\ Jobs[j].gen < startedAt[1]) =>
           FiredSince(Jobs[j], startedAt[2])

C6_PanicContained == []C6_state /\ [][C6_step]_vars

\* a panicking and a returning every-second job fired for the same second,
\* the panic has been recovered, and the returning job fired again for the
\* next second
C6_witness ==
  \E i, j \in DOMAIN Jobs :
    /\ Jobs[i].Task = "panic"
    /\ Jobs[j].Task = "quick"
    /\ FiredAt(Jobs[i], ClockStart + 1)
    /\ FiredAt(Jobs[j], ClockStart + 1)
    /\ \A t \in tasks : ~(t.inv.job = Jobs[i].id /\ t.inv.at = ClockStart + 1)
    /\ FiredAt(Jobs[j], ClockStart + 2)
    /\ ~crashed

\* C7: when AddJob returns, it returns the error of ParseCronExpression for
\* its expression; with an error the job sequence and the running flag are
\* as they were, with nil exactly one job, of that expression, is at the
\* end of the sequence and the earlier jobs are at their indices
C7_step ==
  ret'.op = "AddJob" =>
    /\ ret'.err = ParseCronExpression(ret'.expr).err
    /\ running' = running
    /\ IF ret'.err # "nil"
       THEN Jobs' = Jobs
       ELSE /\ Len(Jobs') = Len(Jobs) + 1
            /\ SubSeq(Jobs', 1, Len(Jobs)) = Jobs
            /\ Jobs'[Len(Jobs')].expr = ret'.expr
            /\ \A i \in DOMAIN Jobs : Jobs[i].id # Jobs'[Len(Jobs')].id

C7_AddJobContract == [][C7_step]_vars

\* AddJob has returned an error with one job in the registry, which an
\* earlier AddJob put there
C7_witness ==
  /\ ret.op = "AddJob"
  /\ ret.err = "invalid cron expression"
  /\ ret.expr = ExprInvalid
  /\ Len(Jobs) = 1
  /\ removed = {}

\* C8: RemoveJob with an index below 0 or not below the number of jobs
\* returns the index-out-of-range error and leaves the job sequence and the
\* running flag as they were
C8_step ==
  (ret'.op = "RemoveJob" /\ (ret'.index < 0 \/ ret'.index >= Len(Jobs))) =>
    /\ ret'.err = "index out of range"
    /\ Jobs' = Jobs
    /\ running' = running

C8_RemoveJobOutOfRange == [][C8_step]_vars

\* RemoveJob(1) has failed on a registry of one job, while running
C8_witness ==
  /\ ret.op = "RemoveJob"
  /\ ret.err = "index out of range"
  /\ ret.index = 1
  /\ Len(Jobs) = 1
  /\ running

\* C9: RemoveJob(i) with 0 <= i < number of jobs returns nil; the sequence
\* is one shorter, the jobs before position i are where they were and the
\* jobs after it are one position lower, in their order
C9_step ==
  (ret'.op = "RemoveJob" /\ 0 <= ret'.index /\ ret'.index < Len(Jobs)) =>
    /\ ret'.err = "nil"
    /\ Len(Jobs') = Len(Jobs) - 1
    /\ \A k \in 1..ret'.index : Jobs'[k] = Jobs[k]
    /\ \A k \in (ret'.index + 1)..Len(Jobs') : Jobs'[k] = Jobs[k + 1]

Copies(id) ==
  Cardinality({i \in DOMAIN Jobs : Jobs[i].id = id})
    + Cardinality({c \in CallerIds : call[c].op = "AddJob" /\ call[c].job.id = id})
    + Cardinality({id} \cap removed)

C10_NoLostUpdate ==
  /\ \A id \in 1..(nextId - 1) : Copies(id) = 1
  /\ \A i \in DOMAIN Jobs : Jobs[i].id \in 1..(nextId - 1)
  /\ ret.op = "ListJobs" =>
       /\ Len(ret.list) = Len(Jobs)
       /\ \A i \in DOMAIN Jobs : ret.list[i] = JobLine(i - 1, Jobs[i])

\* two AddJob calls overlapped (the call that made its job second appended
\* first), both returned, and ListJobs reports the two entries
C10_witness ==
  /\ ret.op = "ListJobs"
  /\ Len(ret.list) = 2
  /\ Len(Jobs) = 2
  /\ Jobs[1].id = 2
  /\ Jobs[2].id = 1
  /\ \A c \in CallerIds : call[c].op # "AddJob"

\* a step in which a caller enters Start's critical section
StartStep ==
  \/ ret'.op = "Start" /\ call' = call
  \/ \E c \in CallerIds : call[c].pc = "idle" /\ call'[c].op = "Start"

\* C11: Start on a running scheduler returns with running still true, the
\* same channel in c.stop, none closed or made, the registry untouched and
\* no loop goroutine launched or about to be
C11_step ==
  (running /\ StartStep) =>
    /\ ret'.op = "Start"
    /\ running'
    /\ stop' = stop /\ closed' = closed /\ nChans' = nChans
    /\ Jobs' = Jobs
    /\ loop' = loop
    /\ call' = call
    /\ starts' = starts

C11_StartIdempotent == [][C11_step]_vars

\* Start has returned on a scheduler whose loop, launched by an earlier
\* Start, is waiting in its select
C11_witness ==
  /\ ret.op = "Start"
  /\ running
  /\ starts = 1
  /\ Len(loop) = 1
  /\ loop[1].pc = "wait"
  /\ stop # NilChan

\* C12: Stop never closes a nil or closed channel (whenever running is true
\* c.stop is a channel that is open, and no close has ended the process),
\* and Stop on a scheduler that is not running returns having changed
\* neither the running flag nor the registry, nor anything else
C12_state ==
  /\ ~crashed
  /\ running => (stop # NilChan /\ stop \notin closed)

C12_step ==
  (~running /\ ret'.op = "Stop") =>
    /\ ~running'
    /\ Jobs' = Jobs
    /\ stop' = stop /\ closed' = closed
    /\ loop' = loop

C12_StopIdempotent == []C12_state /\ [][C12_step]_vars

\* Stop has returned on a scheduler that an earlier Stop had stopped: its
\* two loops have both exited, each after the Stop that closed its channel
C12_witness ==
  /\ ret.op = "Stop"
  /\ ~running
  /\ starts = 2
  /\ nChans = 2
  /\ Cardinality(closed) = 2
  /\ Len(loop) = 2
  /\ \A l \in DOMAIN loop : loop[l].pc = "exit"

\* C13: the scheduler is created empty and not running; a Start that finds
\* it stopped leaves it running and a Stop leaves it stopped; and once a
\* Start after a Stop has returned, c.stop is an open channel that no Stop
\* has closed, the loop that Start launched is alive, and it invokes every
\* registered job for every matching second since
C13_init == Jobs = <<>> /\ ~running

C13_step ==
  /\ StartStep => running'
  /\ ret'.op = "Stop" => ~running'

C13_state ==
  (Started /\ starts >= 2) =>
    /\ stop # NilChan /\ stop \notin closed /\ closed # {}
    /\ loop[Len(loop)].pc \notin {"none", "exit"}
    /\ Quiet =>
         \A i \in DOMAIN Jobs : \A t \in Instants :
           (Jobs[i].gen < startedAt[1] /\ startedAt[2] < t /\ t <= clock
              /\ Matches(Jobs[i], t)) =>
             \E f \in fired : f.job = Jobs[i].id /\ f.at = t /\ f.loop = Len(loop)

C13_Restart == C13_init /\ []C13_state /\ [][C13_step]_vars

\* after Start, Stop, Start the second loop has invoked the job for a second
\* after the restart, with the first channel closed and the second open
C13_witness ==
  /\ Started
  /\ starts = 2
  /\ Len(loop) = 2
  /\ closed = {1}
  /\ stop = 2
  /\ \E f \in fired : f.loop = 2 /\ f.at > startedAt[2]

\* C14: a due-job pass selects every job of the registry that matches its
\* instant exactly once, and starts exactly one task goroutine, with one
\* invocation, for each job it selected
C14_step ==
  \A l \in DOMAIN loop :
    /\ (loop[l].pc = "due" /\ loop'[l].pc = "spawn") =>
         \A i \in DOMAIN Jobs :
           Matches(Jobs[i], loop[l].dueNow) =>
             Cardinality({k \in DOMAIN loop'[l].jobsToRun :
                            loop'[l].jobsToRun[k].id = Jobs[i].id}) = 1
    /\ (loop[l].pc = "spawn" /\ loop'[l].pc = "top") =>
         /\ Cardinality(tasks' \ tasks) = Len(loop[l].jobsToRun)
         /\ Cardinality(fired' \ fired) = Len(loop[l].jobsToRun)
         /\ \A k \in DOMAIN loop[l].jobsToRun :
              /\ Cardinality({t \in tasks' \ tasks :
                                t.inv.job = loop[l].jobsToRun[k].id}) = 1
              /\ Cardinality({f \in fired' \ fired :
                                f.job = loop[l].jobsToRun[k].id
                                  /\ f.at = loop[l].dueNow}) = 1

C14_EachDueJobOnce == [][C14_step]_vars

\* two jobs on the same expression were invoked by the same pass, each once
C14_witness ==
  /\ Len(Jobs) = 2
  /\ Jobs[1].expr = ExprEverySecond
  /\ Jobs[2].expr = ExprEverySecond
  /\ \E f, g \in fired :
       /\ f.job = Jobs[1].id /\ g.job = Jobs[2].id
       /\ f.at = g.at /\ f.loop = g.loop /\ f.pass = g.pass
       /\ Cardinality({h \in fired : h.at = f.at}) = 2

\* some task the scheduler started never returns
SomeTaskBlocked == \E t \in tasks : t.kind = "block"

\* C15: a loop that has started its tasks is back at the top of its
\* iteration whatever the tasks do; with a task blocked forever, the jobs
\* registered before Start are still invoked for every matching second, the
\* mutex is held by no one but an AddJob call about to release it, and every
\* API call can take its critical section and return
C15_step ==
  \A l \in DOMAIN loop :
    (loop[l].pc = "spawn" /\ loop'[l] # loop[l]) => loop'[l].pc = "top"

C15_state ==
  SomeTaskBlocked =>
    /\ (Started /\ Quiet) =>
         \A i \in DOMAIN Jobs :
           Jobs[i].gen < startedAt[1] => FiredSince(Jobs[i], startedAt[2])
    /\ \A c \in CallerIds :
         /\ mutex = Caller(c) => ENABLED AddJobAppend(c)
         /\ In(c, "Start", "go") => ENABLED StartGo(c)
         /\ (Idle(c) /\ mutex = Free) =>
              /\ ENABLED AddJobParse(c)
              /\ ENABLED RemoveJob(c)
              /\ ENABLED ListJobs(c)
              /\ ENABLED Stop(c)
              /\ running => ENABLED Start(c)
    /\ \A l \in DOMAIN loop : mutex # Loop(l)
    /\ mutex # Free => \E c \in CallerIds : mutex = Caller(c)

Members(list) == {list[i] : i \in DOMAIN list}

\* 2023-01-01 is a Sunday; Sunday is 0
Weekday2023(date) == (DaysBefore2023(date[1]) + date[2] - 1) % 7

Parsed == probe.fn = "parse" /\ probe.done
Accepted == Parsed /\ probe.parsed.err = "nil"
Rejected == Parsed /\ probe.parsed.err # "nil" /\ probe.parsed.expr = NilExpr

Within(list, lo, hi) == \A i \in DOMAIN list : lo <= list[i] /\ list[i] <= hi

\* C17: every value of every field of an accepted expression is in the
\* legal range of the field
C17_FieldsInRange ==
  Accepted =>
    /\ Within(probe.parsed.expr.Seconds, 0, 59)
    /\ Within(probe.parsed.expr.Minutes, 0, 59)
    /\ Within(probe.parsed.expr.Hours, 0, 23)
    /\ Within(probe.parsed.expr.DayOfMonth, 1, 31)
    /\ Within(probe.parsed.expr.Month, 1, 12)
    /\ Within(probe.parsed.expr.DayOfWeek, 0, 6)

\* the hours field "22-1/3", a step over a wraparound range, was accepted
\* with values
C17_witness ==
  /\ Accepted
  /\ probe.kind = "steprange" /\ probe.pos = 3 /\ probe.a = 22 /\ probe.b = 1
  /\ probe.parsed.expr.Hours # <<>>

OutOfRange(pos, n) == n < FieldMin[pos] \/ n > FieldMax[pos]

\* the input has a numeric literal outside the range of its field
BadLiteral(p) ==
  /\ ~p.named
  /\ \/ p.kind \in {"value", "stepvalue"} /\ OutOfRange(p.pos, p.a)
     \/ /\ p.kind \in {"list", "range", "steprange"}
        /\ OutOfRange(p.pos, p.a) \/ OutOfRange(p.pos, p.b)

\* C19: an input with a literal outside the range of its field (alone, in a
\* list, as an end of a range, as the base of a step) or with a token that
\* is neither an integer nor a name of the field is rejected with an error
\* and no expression
C19_BadLiteralRejected ==
  (Parsed /\ (BadLiteral(probe) \/ probe.kind \in {"junk", "foreign"})) => Rejected

\* the seconds list "0,60" was rejected, not truncated to 0
C19_witness ==
  /\ Rejected
  /\ probe.kind = "list" /\ probe.pos = 1 /\ probe.a = 0 /\ probe.b = 60
  /\ probe.parsed.err = "value out of range"

FieldOf(expr, pos) ==
  CASE pos = 1 -> expr.Seconds [] pos = 2 -> expr.Minutes [] pos = 3 -> expr.Hours
    [] pos = 4 -> expr.DayOfMonth [] pos = 5 -> expr.Month [] OTHER -> expr.DayOfWeek

\* the integers lo..hi in order
Run(lo, hi) == [i \in 1..(hi - lo + 1) |-> lo + i - 1]

\* C20: a range a-b with both ends in the field's range yields a..b when
\* a <= b and a..max followed by min..b when a > b (Fri-Mon is 5,6,0,1 and
\* Nov-Feb is 11,12,1,2); a range with an end that is not a value of the
\* field, or without exactly two parts, is rejected
C20_Ranges ==
  /\ (Parsed /\ probe.kind = "range") =>
       IF OutOfRange(probe.pos, probe.a) \/ OutOfRange(probe.pos, probe.b)
       THEN Rejected
       ELSE /\ Accepted
            /\ FieldOf(probe.parsed.expr, probe.pos) =
                 IF probe.a <= probe.b THEN Run(probe.a, probe.b)
                 ELSE Run(probe.a, FieldMax[probe.pos])
                        \o Run(FieldMin[probe.pos], probe.b)
  /\ (Parsed /\ probe.kind = "range" /\ probe.named /\ probe.pos = 6
        /\ probe.a = 5 /\ probe.b = 1) =>
       probe.parsed.expr.DayOfWeek = <<5, 6, 0, 1>>
  /\ (Parsed /\ probe.kind = "range" /\ probe.named /\ probe.pos = 5
        /\ probe.a = 11 /\ probe.b = 2) =>
       probe.parsed.expr.Month = <<11, 12, 1, 2>>
  /\ (Parsed /\ probe.kind = "junk" /\ probe.a \in {4, 5, 6}) => Rejected

\* Fri-Mon was accepted as 5,6,0,1
C20_witness ==
  /\ Accepted
  /\ probe.kind = "range" /\ probe.named /\ probe.pos = 6
  /\ probe.a = 5 /\ probe.b = 1
  /\ probe.parsed.expr.DayOfWeek = <<5, 6, 0, 1>>

\* the values a-b stands for, both ends in the range of the field
RangeRun(pos, a, b) ==
  IF a <= b THEN Run(a, b) ELSE Run(a, FieldMax[pos]) \o Run(FieldMin[pos], b)

\* the members of a list that are a multiple of step away from the least
\* value of the field
Stepped(pos, base, step) ==
  SelectSeq(base, LAMBDA v : (v - FieldMin[pos]) % step = 0)

\* the instants at which a parsed expression is tried
ProbeInstants == {Date(d) : d \in {x \in MatchDates : x[2] <= MonthDays2023[x[1]]}}

\* C21: base/step is accepted, when base is accepted and step is a positive
\* integer, with exactly the members v of base, in order, for which
\* (v - min) mod step = 0, min the least value of the field and not the
\* start of a range; a step that is zero, negative or not an integer, an
\* empty base and a field with two '/' are rejected; a field left without
\* members is accepted and matches no instant
C21_StepFields ==
  /\ (Parsed /\ probe.kind = "step") =>
       IF probe.b <= 0 THEN Rejected /\ probe.parsed.err = "invalid step"
       ELSE /\ Accepted
            /\ FieldOf(probe.parsed.expr, probe.pos) =
                 Stepped(probe.pos, Run(FieldMin[probe.pos], FieldMax[probe.pos]),
                         probe.b)
  /\ (Parsed /\ probe.kind = "stepvalue") =>
       IF OutOfRange(probe.pos, probe.a) THEN Rejected
       ELSE /\ Accepted
            /\ FieldOf(probe.parsed.expr, probe.pos) =
                 Stepped(probe.pos, <<probe.a>>, probe.b)
  /\ (Parsed /\ probe.kind \in {"steprange", "steplist"}) =>
       IF OutOfRange(probe.pos, probe.a) \/ OutOfRange(probe.pos, probe.b)
       THEN Rejected
       ELSE /\ Accepted
            /\ FieldOf(probe.parsed.expr, probe.pos) =
                 IF probe.kind = "steprange"
                 THEN Stepped(probe.pos, RangeRun(probe.pos, probe.a, probe.b), 3)
                 ELSE Stepped(probe.pos, <<probe.a, probe.b>>, 2)
  /\ (Parsed /\ probe.kind = "junk" /\ probe.a \in {7, 8, 9, 11}) => Rejected
  /\ (Parsed /\ probe.kind = "junk" /\ probe.a = 7) =>
       probe.parsed.err = "invalid step field"
  /\ (Parsed /\ probe.kind = "junk" /\ probe.a \in {8, 11}) =>
       probe.parsed.err = "invalid step"
  /\ (Accepted /\ FieldOf(probe.parsed.expr, probe.pos) = <<>>) =>
       \A t \in ProbeInstants : ~isTimeMatching(probe.parsed.expr, t)

\* the seconds field "1-58/3" was accepted as 3, 6, ..., 57: counted from
\* second 0, not from the start of the range
C21_witness ==
  /\ Accepted
  /\ probe.kind = "steprange" /\ probe.pos = 1 /\ probe.a = 1 /\ probe.b = 58
  /\ probe.parsed.expr.Seconds[1] = 3
  /\ Len(probe.parsed.expr.Seconds) = 19

\* the day-of-month field "2/2" was accepted without members
C21_empty ==
  /\ Accepted
  /\ probe.kind = "stepvalue" /\ probe.pos = 4 /\ probe.a = 2
  /\ probe.parsed.expr.DayOfMonth = <<>>

Scanned == probe.fn = "next" /\ probe.done

\* time.Time.After
After(t, u) == t.sec > u.sec \/ (t.sec = u.sec /\ t.nsec > u.nsec)

\* C22: nextRunTime(expr, from) returns either an instant t that is a whole
\* second after from, matches expr, is one of the 1,000,000 whole seconds
\* that follow the second of from, and has no matching whole second between
\* from and itself, or, when none of these 1,000,000 seconds matches, the
\* zero time
C22_NextRunTime ==
  Scanned =>
    LET from == ProbeFrom(probe)
        t == probe.next
        expr == probe.parsed.expr
    IN IF t = ZeroTimeNs
       THEN \A k \in 1..maxIterations : ~isTimeMatching(expr, from.sec + k)
       ELSE /\ t.nsec = 0
            /\ After(t, from)
            /\ t.sec - from.sec \in 1..maxIterations
            /\ isTimeMatching(expr, t.sec)
            /\ \A s \in (from.sec + 1)..(t.sec - 1) : ~isTimeMatching(expr, s)

\* called in the last nanosecond of 1 January 14:15:30 on the yearly
\* expression that matches this second, it scanned a million seconds and
\* returned the zero time
C22_witness ==
  /\ Scanned
  /\ probe.pos = 2 /\ probe.date = <<1, 1, 14, 15, 30>> /\ probe.a = Second - 1
  /\ probe.next = ZeroTimeNs

\* called at 1 January 22:13:20 it returned Friday 13 January 12:00:00, the
\* last second it scans
C22_last ==
  /\ Scanned
  /\ probe.pos = 5 /\ probe.date = <<1, 1, 22, 13, 20>>
  /\ probe.next = [sec |-> Date(<<1, 13, 12, 0, 0>>), nsec |-> 0]
  /\ probe.next.sec - Date(probe.date) = maxIterations

\* seconds that match the expressions of NextExprs: 1 January 2024 14:15:30,
\* and the Fridays 13 January and 13 October 2023 at noon
KnownMatches ==
  <<{}, {OneYear + Date(<<1, 1, 14, 15, 30>>)}, {}, {},
    {Date(<<1, 13, 12, 0, 0>>), Date(<<10, 13, 12, 0, 0>>)}>>

LittleOverAYear == OneYear + 86400

\* C23: when a whole second after from, and no more than a little over a
\* year after it, matches the expression, nextRunTime(expr, from) returns
\* an instant (the first match, so none later than that second) and not the
\* zero time
C23_CapCoversAYear ==
  Scanned =>
    \A t \in KnownMatches[probe.pos] :
      ( /\ t > Date(probe.date)
        /\ t - Date(probe.date) <= LittleOverAYear
        /\ isTimeMatching(probe.parsed.expr, t) ) =>
        /\ probe.next # ZeroTimeNs
        /\ probe.next.sec <= t

\* what nextRunTime returns for each job, as a duration from now
Upcoming(jobs, now) ==
  {The({[none |-> n = ZeroTime, d |-> n - now] :
          n \in {nextRunTime(Schedule(jobs[i]), now)}}) : i \in DOMAIN jobs}

Least(S) == CHOOSE d \in S : \A e \in S : d <= e

\* the least duration to an upcoming run, one year when there is none
MinUpcoming(jobs, now) ==
  The({IF \A u \in ups : u.none THEN OneYear
       ELSE Least({u.d : u \in {v \in ups : ~v.none}}) :
         ups \in {Upcoming(jobs, now)}})

\* C24: the duration the loop gets from timeUntilNextJob(now) is the least
\* nextRunTime(job, now) - now over the jobs whose nextRunTime is not the
\* zero time, one year when there is no such job; it is positive and at
\* most one year, and the loop always goes on to its timer, never straight
\* to runDueJobs
C24_step ==
  \A l \in DOMAIN loop :
    /\ (loop[l].pc = "next" /\ loop'[l].pc = "select") =>
         /\ loop'[l].nextRun = MinUpcoming(Jobs, loop[l].now)
         /\ loop'[l].nextRun > 0
         /\ loop'[l].nextRun <= OneYear
    /\ (loop[l].pc = "select" /\ loop'[l].pc # "select") => loop'[l].pc = "wait"

C24_TimeUntilNextJob == [][C24_step]_vars

\* with a monthly job that has no upcoming run and a job for the even
\* seconds in the registry, the loop computed 2 seconds at 14:15:30
C24_witness ==
  /\ Jobs = Registry(<<ExprMonthly, ExprEvenSeconds>>)
  /\ Len(loop) = 1
  /\ loop[1].pc = "select"
  /\ loop[1].now = ClockStart + 1
  /\ loop[1].nextRun = 2

\* with the monthly job alone the loop got the one-year sentinel
C24_sentinel ==
  /\ Jobs = Registry(<<ExprMonthly>>)
  /\ Len(loop) = 1
  /\ loop[1].pc = "wait"
  /\ loop[1].deadline = ClockStart + OneYear

\* C25: the mutex is held by no loop that is at its timer and select, or
\* starting tasks, or gone, by no caller that has returned, and by nobody
\* while a task runs unless by a caller inside AddJob; whoever holds it can
\* take its next step and release it, so no goroutine waits for it for ever
C25_LockReleased ==
  /\ \A l \in DOMAIN loop : mutex # Loop(l)
  /\ \A c \in CallerIds : call[c].pc \in {"idle", "go"} => mutex # Caller(c)
  /\ mutex # Free =>
       \E c \in CallerIds :
         /\ mutex = Caller(c)
         /\ In(c, "AddJob", "append")
         /\ ENABLED AddJobAppend(c)

\* while a task that never returns was running and the loop was waiting in
\* its select, ListJobs took the mutex and returned
C25_witness ==
  /\ \E t \in tasks : t.kind = "block"
  /\ \E l \in DOMAIN loop : loop[l].pc = "wait"
  /\ ret.op = "ListJobs"
  /\ mutex = Free

\* Stop has returned and no Start is under way or has followed it
StoppedForGood ==
  /\ ~running
  /\ starts >= 1
  /\ \A c \in CallerIds : call[c].op # "Start"

\* C26: once Stop has returned, with no later Start, no loop sits out a
\* timer: a loop in its select waits on the channel Stop closed and is
\* woken at once, and a loop that was elsewhere sees the stop at its next
\* check, before it sleeps
C26_StopSeenBeforeSleep ==
  StoppedForGood =>
    \A l \in DOMAIN loop :
      loop[l].pc = "wait" => loop[l].stopCh # NilChan /\ loop[l].stopCh \in closed

\* a loop goes on from its running check into another iteration
Iterates(l) == loop[l].pc = "top" /\ loop'[l].pc = "next"

C27_step == \A l \in DOMAIN loop : l < Len(loop) => ~Iterates(l)

C27_state ==
  \A f \in fired : \A g \in fired :
    (f.job = g.job /\ f.at = g.at) => f.loop = g.loop

\* C27: once a Start that followed a Stop has launched a loop, no loop of
\* an earlier Start begins another iteration, and no job is invoked for the
\* same second by two loops
C27_OneLoopAtATime == []C27_state /\ [][C27_step]_vars

\* the seconds for which loop l has invoked tasks
FiredSeconds(l) == {f.at : f \in {g \in fired : g.loop = l}}

C28_state ==
  \A f \in fired : \A g \in fired :
    (f.job = g.job /\ f.at = g.at /\ f.loop = g.loop) => f.pass = g.pass

C28_step ==
  \A l \in DOMAIN loop :
    /\ (loop[l].pc = "select" /\ loop'[l].pc = "wait") =>
         /\ loop'[l].deadline > loop[l].now
         /\ \A s \in FiredSeconds(l) : loop'[l].deadline >= s + 1
    /\ loop'[l].pc = "due" =>
         \A s \in FiredSeconds(l) : loop'[l].dueNow > s

\* C28: a loop invokes a job at most once for a whole second: the timer it
\* sets after a pass for second S is due at S + 1 or later, and the second
\* its next pass evaluates is later than every second it has invoked tasks
\* for
C28_OncePerSecond == []C28_state /\ [][C28_step]_vars

\* one loop invoked a job for two consecutive seconds, once for each
C28_witness ==
  \E f \in fired : \E g \in fired :
    /\ f.job = g.job /\ f.loop = g.loop
    /\ g.at = f.at + 1
    /\ g.pass > f.pass
    /\ Cardinality({h \in fired : h.job = f.job}) = 2
====
